---------------------------- MODULE Spec2Model ----------------------------
(***************************************************************************)
(* Model of VirtualFileDiscripter.py: a passthrough FUSE operation layer   *)
(* over a backing directory, with one synthetic file "/nothing.txt".       *)
(*                                                                         *)
(* Paths are sequences of tokens: the separator "/" or a name component.   *)
(* The backing file system is a map from nodes (sequences of components,   *)
(* as the OS resolves an absolute path) to objects: a kind, permission     *)
(* bits and, for a file, its length (real content is tracked by length     *)
(* only).  The daemon is an unprivileged owner of the tree; the modes in   *)
(* use differ in the read bit, which decides os.access(R_OK), a read-only  *)
(* os.open, open(.., 'r+') and os.listdir.  The descriptor table maps a    *)
(* descriptor to the object it is open on.  The daemon serves one request  *)
(* at a time (nothreads=True): an operation runs to completion, then its   *)
(* reply is delivered before the next request is accepted.  `call`,        *)
(* `result` and `oscalls` hold the request being answered, its reply and   *)
(* the real calls it made.                                                 *)
(***************************************************************************)
EXTENDS Integers, Sequences, FiniteSets, TLC

VARIABLES fs, fdtab, call, result, oscalls

vars == <<fs, fdtab, call, result, oscalls>>

(***************************************************************************)
(* Bounds of the model                                                     *)
(***************************************************************************)
\* copies of the repeated unit in the virtual content (10000 in the source)
Copies == 1
\* largest size of a real file (a write or truncate beyond it gives EFBIG)
MaxFileLen == 1
\* size of the process's descriptor table (open beyond it gives EMFILE)
MaxOpen == 1
\* longest exposed path, in tokens, handed to the path resolver
MaxPathLen == 5

(***************************************************************************)
(* Program constants                                                       *)
(***************************************************************************)
SEP == "/"
VIRTUAL_FILE == <<"nothing.txt">>
SENTINEL_FD == 55110
VIRTUAL_ST_MODE == 33060
VIRTUAL_ST_GID == 1004
VIRTUAL_ST_UID == 1000

RECURSIVE Repeat(_, _)
Repeat(s, n) == IF n = 0 THEN <<>> ELSE s \o Repeat(s, n - 1)

HogeUnit == <<"ho", "ge", "ho", "ge", "ho", "ge">>

VIRTUAL_FILE_VALUE == Repeat(HogeUnit, Copies) \o <<"e", "n", "d", "\n">>

\* self.root, an absolute directory path given at mount time
BackingRoot == <<SEP, "r">>

VirtualPath == <<SEP>> \o VIRTUAL_FILE

(***************************************************************************)
(* Python and os.path primitives                                           *)
(***************************************************************************)
Min(a, b) == IF a < b THEN a ELSE b

Max(a, b) == IF a > b THEN a ELSE b

\* a Python slice bound, clamped as s[i:j] clamps it
SliceIndex(i, n) == IF i < 0 THEN Max(i + n, 0) ELSE Min(i, n)

\* Python's s[start:stop]
PySlice(s, start, stop) ==
    LET lo == SliceIndex(start, Len(s))
        hi == SliceIndex(stop, Len(s))
    IN  IF hi <= lo THEN <<>> ELSE [i \in 1..(hi - lo) |-> s[lo + i]]

StartsWithSep(p) == p # <<>> /\ Head(p) = SEP

\* os.path.join(a, b) of posixpath
OsPathJoin(a, b) ==
    IF StartsWithSep(b) THEN b
    ELSE IF a = <<>> \/ a[Len(a)] = SEP THEN a \o b
    ELSE a \o <<SEP>> \o b

\* _full_path
FullPath(partial) ==
    LET stripped == IF StartsWithSep(partial) THEN Tail(partial) ELSE partial
    IN  OsPathJoin(BackingRoot, stripped)

IsVirtual(path) == path = VirtualPath

(***************************************************************************)
(* The backing file system (the os module, as the operations call it)      *)
(***************************************************************************)
RootNode == <<"r">>

NodeSet == {RootNode, RootNode \o <<"nothing.txt">>, RootNode \o <<"d">>}

NoObj == [kind |-> "none", mode |-> 0, size |-> 0]

\* permission bits chmod/create/mkdir are called with: 0700 and 0300
ModeSet == {448, 192}

Readable(o) == (o.mode \div 256) % 2 = 1

\* the node an absolute path names: its components, separators dropped
Canon(p) == SelectSeq(p, LAMBDA t : t # SEP)

Obj(f, n) ==
    IF n = <<>> THEN [kind |-> "dir", mode |-> 448, size |-> 0]
    ELSE IF n \in NodeSet THEN f[n] ELSE NoObj

Prefix(n, i) == SubSeq(n, 1, i)

\* errno of walking to the parent of n
ParentErr(f, n) ==
    LET bad == {i \in 1..(Len(n) - 1) : Obj(f, Prefix(n, i)).kind # "dir"}
    IN  IF bad = {} THEN "OK"
        ELSE LET i == CHOOSE j \in bad : \A k \in bad : j <= k
             IN  IF Obj(f, Prefix(n, i)).kind = "none" THEN "ENOENT" ELSE "ENOTDIR"

\* errno of looking n up (lstat, chmod, unlink, open without O_CREAT)
LookupErr(f, n) ==
    IF ParentErr(f, n) # "OK" THEN ParentErr(f, n)
    ELSE IF Obj(f, n).kind = "none" THEN "ENOENT" ELSE "OK"

Children(f, n) == {c \in NodeSet : Len(c) = Len(n) + 1 /\ Prefix(c, Len(n)) = n /\ f[c].kind # "none"}

\* the orders in which os.listdir may return a set of names
Orderings(S) == {s \in [1..Cardinality(S) -> S] : \A i, j \in 1..Cardinality(S) : i # j => s[i] # s[j]}

FdSet == 3..(2 + MaxOpen)

Closed == [st |-> "closed", node |-> <<>>]

FreeFds(t) == {fd \in FdSet : t[fd].st = "closed"}

LowestFree(t) == CHOOSE fd \in FreeFds(t) : \A g \in FreeFds(t) : fd <= g

IsOpenFd(t, fh) == fh \in FdSet /\ t[fh].st # "closed"

\* descriptors of a removed object keep it alive, detached from its name
Orphaned(t, n) ==
    [fd \in FdSet |->
        IF t[fd].st = "linked" /\ t[fd].node = n THEN [st |-> "orphan", node |-> <<>>] ELSE t[fd]]

OsCall(fn, path, fd) == [fn |-> fn, path |-> path, fd |-> fd]

(***************************************************************************)
(* Requests and replies                                                    *)
(***************************************************************************)
Idle == [op |-> "idle", path |-> <<>>, other |-> <<>>, mode |-> 0, flags |-> "", size |-> 0, offset |-> 0, fh |-> 0]

Req(op, path) == [Idle EXCEPT !.op = op, !.path = path]

None == "None"

Ok(v) == [err |-> "OK", val |-> v]

Fail(e) == [err |-> e, val |-> None]

TypeOK ==
    /\ fs \in [NodeSet -> [kind : {"none", "file", "dir"}, mode : ModeSet \cup {0}, size : 0..MaxFileLen]]
    /\ \A fd \in FdSet : fdtab[fd].st \in {"closed", "linked", "orphan"}
    /\ call.op \in STRING
    /\ result.err \in STRING

Init ==
    /\ fs = [n \in NodeSet |-> IF n = RootNode THEN [kind |-> "dir", mode |-> 448, size |-> 0] ELSE NoObj]
    /\ fdtab = [fd \in FdSet |-> Closed]
    /\ call = Idle
    /\ result = Ok(None)
    /\ oscalls = <<>>

\* one request is served at a time; the operation's effect on the state is total
Serve(c, r, calls, f, t) ==
    /\ call = Idle
    /\ call' = c
    /\ result' = r
    /\ oscalls' = calls
    /\ fs' = f
    /\ fdtab' = t

\* the bridge delivers the reply and accepts the next request
Reply ==
    /\ call # Idle
    /\ call' = Idle
    /\ result' = Ok(None)
    /\ oscalls' = <<>>
    /\ UNCHANGED <<fs, fdtab>>

(***************************************************************************)
(* Filesystem methods                                                      *)
(***************************************************************************)
\* os.access: whether the real check grants `mode`
OsAccess(f, full, mode) ==
    /\ LookupErr(f, Canon(full)) = "OK"
    /\ (mode = "F_OK" \/ Readable(Obj(f, Canon(full))))

\* the reply of access, given what os.access answered
AccessResult(granted) == IF granted THEN Ok(None) ELSE Fail("EACCES")

Access(path, mode) ==
    LET full == FullPath(path)
        c == [Req("access", path) EXCEPT !.flags = mode]
    IN  Serve(c, AccessResult(OsAccess(fs, full, mode)),
              <<OsCall("os.access", full, 0)>>, fs, fdtab)

Chmod(path, mode) ==
    LET full == FullPath(path)
        n == Canon(full)
        e == LookupErr(fs, n)
        c == [Req("chmod", path) EXCEPT !.mode = mode]
    IN  Serve(c, IF e = "OK" THEN Ok(None) ELSE Fail(e),
              <<OsCall("os.chmod", full, 0)>>,
              IF e = "OK" THEN [fs EXCEPT ![n].mode = mode] ELSE fs, fdtab)

\* the synthetic record of getattr
VirtualAttr ==
    [st_ctime |-> 0, st_mtime |-> 0, st_nlink |-> 1, st_mode |-> VIRTUAL_ST_MODE,
     st_size |-> Len(VIRTUAL_FILE_VALUE), st_gid |-> VIRTUAL_ST_GID,
     st_uid |-> VIRTUAL_ST_UID, st_atime |-> 0]

\* os.lstat of an existing object, reduced to the eight keys getattr copies
LstatAttr(o) ==
    [st_atime |-> 1, st_ctime |-> 1, st_gid |-> 1000,
     st_mode |-> (IF o.kind = "dir" THEN 16384 ELSE 32768) + o.mode,
     st_mtime |-> 1, st_nlink |-> IF o.kind = "dir" THEN 2 ELSE 1,
     st_size |-> IF o.kind = "dir" THEN 4096 ELSE o.size, st_uid |-> 1000]

\* a getattr that asks the backing tree first
GetattrLstatFirst(f, path) ==
    LET n == Canon(FullPath(path))
    IN  IF LookupErr(f, n) = "OK" THEN Ok(LstatAttr(Obj(f, n)))
        ELSE IF IsVirtual(path) THEN Ok(VirtualAttr) ELSE Fail(LookupErr(f, n))

GetattrResult(f, path) ==
    IF IsVirtual(path) THEN Ok(VirtualAttr)
    ELSE LET n == Canon(FullPath(path))
         IN  IF LookupErr(f, n) = "OK" THEN Ok(LstatAttr(Obj(f, n))) ELSE Fail(LookupErr(f, n))

Getattr(path) ==
    Serve(Req("getattr", path), GetattrResult(fs, path),
          IF IsVirtual(path) THEN <<>> ELSE <<OsCall("os.lstat", FullPath(path), 0)>>,
          fs, fdtab)

\* os.path.isdir
OsIsDir(f, full) == LookupErr(f, Canon(full)) = "OK" /\ Obj(f, Canon(full)).kind = "dir"

\* the names every listing starts with
FixedDirents == <<".", "..">> \o VIRTUAL_FILE

\* a listing that drops a real child named like the virtual file
DirentsDedup(listing) == FixedDirents \o SelectSeq(listing, LAMBDA x : x # VIRTUAL_FILE[1])

\* the names readdir yields when the real listing is `listing`
Dirents(listing) == FixedDirents \o listing

\* what os.listdir(full) may give: an error, or the children's names in some order
OsListdirResults(f, full) ==
    IF ~Readable(Obj(f, Canon(full))) THEN {Fail("EACCES")}
    ELSE {Ok([i \in DOMAIN order |-> order[i][Len(order[i])]]) : order \in Orderings(Children(f, Canon(full)))}

\* the replies readdir may give: the generator raises before its first name
\* when os.listdir raises
ReaddirResults(f, path) ==
    IF ~OsIsDir(f, FullPath(path)) THEN {Ok(Dirents(<<>>))}
    ELSE {IF l.err = "OK" THEN Ok(Dirents(l.val)) ELSE l : l \in OsListdirResults(f, FullPath(path))}

ReaddirCalls(f, path) ==
    IF OsIsDir(f, FullPath(path))
    THEN <<OsCall("os.path.isdir", FullPath(path), 0), OsCall("os.listdir", FullPath(path), 0)>>
    ELSE <<OsCall("os.path.isdir", FullPath(path), 0)>>

Readdir(path, fh) ==
    \E r \in ReaddirResults(fs, path) :
        Serve([Req("readdir", path) EXCEPT !.fh = fh], r, ReaddirCalls(fs, path), fs, fdtab)

Rmdir(path) ==
    LET full == FullPath(path)
        n == Canon(full)
        e == IF LookupErr(fs, n) # "OK" THEN LookupErr(fs, n)
             ELSE IF Obj(fs, n).kind # "dir" THEN "ENOTDIR"
             ELSE IF Children(fs, n) # {} THEN "ENOTEMPTY" ELSE "OK"
    IN  Serve(Req("rmdir", path), IF e = "OK" THEN Ok(None) ELSE Fail(e),
              <<OsCall("os.rmdir", full, 0)>>,
              IF e = "OK" THEN [fs EXCEPT ![n] = NoObj] ELSE fs,
              IF e = "OK" THEN Orphaned(fdtab, n) ELSE fdtab)

Mkdir(path, mode) ==
    LET full == FullPath(path)
        n == Canon(full)
        e == IF ParentErr(fs, n) # "OK" THEN ParentErr(fs, n)
             ELSE IF Obj(fs, n).kind # "none" THEN "EEXIST" ELSE "OK"
        c == [Req("mkdir", path) EXCEPT !.mode = mode]
    IN  Serve(c, IF e = "OK" THEN Ok(None) ELSE Fail(e),
              <<OsCall("os.mkdir", full, 0)>>,
              IF e = "OK" THEN [fs EXCEPT ![n] = [kind |-> "dir", mode |-> mode, size |-> 0]] ELSE fs,
              fdtab)

\* errno of os.unlink
UnlinkErr(f, n) ==
    IF LookupErr(f, n) # "OK" THEN LookupErr(f, n)
    ELSE IF Obj(f, n).kind = "dir" THEN "EISDIR" ELSE "OK"

\* os.unlink(full)
OsUnlink(f, t, full) ==
    LET n == Canon(full)
        e == UnlinkErr(f, n)
    IN  IF e # "OK" THEN [r |-> Fail(e), calls |-> <<OsCall("os.unlink", full, 0)>>, f |-> f, t |-> t]
        ELSE [r |-> Ok(None), calls |-> <<OsCall("os.unlink", full, 0)>>,
              f |-> [f EXCEPT ![n] = NoObj], t |-> Orphaned(t, n)]

\* an unlink that treats the virtual path as removable without a real call
UnlinkVirtualNoop(f, t, path) ==
    IF IsVirtual(path) THEN [r |-> Ok(None), calls |-> <<>>, f |-> f, t |-> t]
    ELSE OsUnlink(f, t, FullPath(path))

UnlinkStep(f, t, path) == OsUnlink(f, t, FullPath(path))

Unlink(path) ==
    LET s == UnlinkStep(fs, fdtab, path)
    IN  Serve(Req("unlink", path), s.r, s.calls, s.f, s.t)

\* symlink, rename and link log the unbound name `path` before the real call:
\* evaluating the logging arguments raises NameError and the call is not reached
Symlink(name, target) ==
    Serve([Req("symlink", name) EXCEPT !.other = target], Fail("NameError"), <<>>, fs, fdtab)

Rename(old, new) ==
    Serve([Req("rename", old) EXCEPT !.other = new], Fail("NameError"), <<>>, fs, fdtab)

Link(target, name) ==
    Serve([Req("link", target) EXCEPT !.other = name], Fail("NameError"), <<>>, fs, fdtab)

(***************************************************************************)
(* File methods                                                            *)
(***************************************************************************)
\* what an operation does: its reply, the real calls it made, the new state
Outcome(r, calls, f, t) == [r |-> r, calls |-> calls, f |-> f, t |-> t]

Apply(c, s) == Serve(c, s.r, s.calls, s.f, s.t)

\* os.open(full, flags) without O_CREAT
OsOpen(f, t, full, flags) ==
    LET n == Canon(full)
        o == Obj(f, n)
        e == IF FreeFds(t) = {} THEN "EMFILE"
             ELSE IF LookupErr(f, n) # "OK" THEN LookupErr(f, n)
             ELSE IF flags = "O_RDONLY" /\ ~Readable(o) THEN "EACCES"
             ELSE IF flags = "O_WRONLY" /\ o.kind = "dir" THEN "EISDIR" ELSE "OK"
        fd == LowestFree(t)
    IN  IF e # "OK" THEN Outcome(Fail(e), <<OsCall("os.open", full, 0)>>, f, t)
        ELSE Outcome(Ok(fd), <<OsCall("os.open", full, 0)>>, f,
                     [t EXCEPT ![fd] = [st |-> "linked", node |-> n]])

OpenStep(f, t, path, flags) ==
    IF IsVirtual(path) THEN Outcome(Ok(SENTINEL_FD), <<>>, f, t)
    ELSE OsOpen(f, t, FullPath(path), flags)

Open(path, flags) ==
    Apply([Req("open", path) EXCEPT !.flags = flags], OpenStep(fs, fdtab, path, flags))

\* os.open(full, os.O_WRONLY | os.O_CREAT, mode)
OsOpenCreat(f, t, full, mode) ==
    LET n == Canon(full)
        o == Obj(f, n)
        e == IF FreeFds(t) = {} THEN "EMFILE"
             ELSE IF ParentErr(f, n) # "OK" THEN ParentErr(f, n)
             ELSE IF o.kind = "dir" \/ full[Len(full)] = SEP THEN "EISDIR" ELSE "OK"
        fd == LowestFree(t)
    IN  IF e # "OK" THEN Outcome(Fail(e), <<OsCall("os.open", full, 0)>>, f, t)
        ELSE Outcome(Ok(fd), <<OsCall("os.open", full, 0)>>,
                     IF o.kind = "none" THEN [f EXCEPT ![n] = [kind |-> "file", mode |-> mode, size |-> 0]] ELSE f,
                     [t EXCEPT ![fd] = [st |-> "linked", node |-> n]])

Create(path, mode) ==
    Apply([Req("create", path) EXCEPT !.mode = mode], OsOpenCreat(fs, fdtab, FullPath(path), mode))

\* n opaque bytes of a real file
Bytes(n) == [i \in 1..n |-> "b"]

\* whether descriptor fh of table t is open on a directory
IsDirFd(f, t, fh) == t[fh].st = "linked" /\ f[t[fh].node].kind = "dir"

\* what os.read(fh, size) may return after os.lseek(fh, offset).  The access
\* mode a descriptor was opened with is not tracked, so a read or write of a
\* file may be refused with EBADF; nor are the kind and content of an object
\* removed while open, so any outcome of reading one is possible.
OsReadResults(f, t, size, offset, fh) ==
    IF ~IsOpenFd(t, fh) THEN {Fail("EBADF")}
    ELSE IF IsDirFd(f, t, fh) THEN {Fail("EISDIR")}
    ELSE IF t[fh].st = "linked"
    THEN {Fail("EBADF"), Ok(PySlice(Bytes(f[t[fh].node].size), offset, offset + size))}
    ELSE {Fail("EBADF"), Fail("EISDIR")} \cup {Ok(Bytes(k)) : k \in 0..Min(size, Max(MaxFileLen - offset, 0))}

\* a read whose slice stops at `size` instead of `offset + size`
VirtualReadStopAtSize(size, offset) == PySlice(VIRTUAL_FILE_VALUE, offset, size)

\* the virtual branch of read
VirtualRead(size, offset) == PySlice(VIRTUAL_FILE_VALUE, offset, offset + size)

ReadCalls(t, fh) ==
    IF IsOpenFd(t, fh) THEN <<OsCall("os.lseek", <<>>, fh), OsCall("os.read", <<>>, fh)>>
    ELSE <<OsCall("os.lseek", <<>>, fh)>>

Read(path, size, offset, fh) ==
    LET c == [Req("read", path) EXCEPT !.size = size, !.offset = offset, !.fh = fh]
    IN  IF IsVirtual(path) THEN Serve(c, Ok(VirtualRead(size, offset)), <<>>, fs, fdtab)
        ELSE \E r \in OsReadResults(fs, fdtab, size, offset, fh) :
                Serve(c, r, ReadCalls(fdtab, fh), fs, fdtab)

\* os.lseek(fh, offset, os.SEEK_SET); os.write(fh, buf), buf of buflen bytes
OsWriteOutcomes(f, t, buflen, offset, fh) ==
    LET calls == <<OsCall("os.lseek", <<>>, fh), OsCall("os.write", <<>>, fh)>>
    IN  IF ~IsOpenFd(t, fh) THEN {Outcome(Fail("EBADF"), <<OsCall("os.lseek", <<>>, fh)>>, f, t)}
        ELSE IF IsDirFd(f, t, fh) THEN {Outcome(Fail("EBADF"), calls, f, t)}
        ELSE IF offset + buflen > MaxFileLen
        THEN {Outcome(Fail("EBADF"), calls, f, t), Outcome(Fail("EFBIG"), calls, f, t)}
        ELSE {Outcome(Fail("EBADF"), calls, f, t),
              Outcome(Ok(buflen), calls,
                      IF t[fh].st = "linked"
                      THEN [f EXCEPT ![t[fh].node].size = Max(@, offset + buflen)] ELSE f,
                      t)}

Write(path, buflen, offset, fh) ==
    \E s \in OsWriteOutcomes(fs, fdtab, buflen, offset, fh) :
        Apply([Req("write", path) EXCEPT !.size = buflen, !.offset = offset, !.fh = fh], s)

\* with open(full_path, 'r+') as f: f.truncate(length)
TruncateStep(f, t, full, length) ==
    LET n == Canon(full)
        o == Obj(f, n)
        e == IF FreeFds(t) = {} THEN "EMFILE"
             ELSE IF LookupErr(f, n) # "OK" THEN LookupErr(f, n)
             ELSE IF o.kind = "dir" THEN "EISDIR"
             ELSE IF ~Readable(o) THEN "EACCES" ELSE "OK"
    IN  IF e # "OK" THEN Outcome(Fail(e), <<OsCall("open", full, 0)>>, f, t)
        ELSE IF length > MaxFileLen
        THEN Outcome(Fail("EFBIG"), <<OsCall("open", full, 0), OsCall("f.truncate", full, 0)>>, f, t)
        ELSE Outcome(Ok(None), <<OsCall("open", full, 0), OsCall("f.truncate", full, 0)>>,
                     [f EXCEPT ![n].size = length], t)

Truncate(path, length) ==
    Apply([Req("truncate", path) EXCEPT !.size = length], TruncateStep(fs, fdtab, FullPath(path), length))

FlushStep(f, t, path, fh) ==
    IF IsVirtual(path) THEN Outcome(Ok(None), <<>>, f, t)
    ELSE Outcome(IF IsOpenFd(t, fh) THEN Ok(None) ELSE Fail("EBADF"), <<OsCall("os.fsync", <<>>, fh)>>, f, t)

Flush(path, fh) ==
    Apply([Req("flush", path) EXCEPT !.fh = fh], FlushStep(fs, fdtab, path, fh))

\* os.close(fh)
OsClose(f, t, fh) ==
    IF IsOpenFd(t, fh) THEN Outcome(Ok(None), <<OsCall("os.close", <<>>, fh)>>, f, [t EXCEPT ![fh] = Closed])
    ELSE Outcome(Fail("EBADF"), <<OsCall("os.close", <<>>, fh)>>, f, t)

\* a release that closes whatever descriptor it is given
ReleaseAlwaysClose(f, t, path, fh) == OsClose(f, t, fh)

ReleaseStep(f, t, path, fh) ==
    IF IsVirtual(path) THEN Outcome(Ok(None), <<>>, f, t)
    ELSE OsClose(f, t, fh)

Release(path, fh) ==
    Apply([Req("release", path) EXCEPT !.fh = fh], ReleaseStep(fs, fdtab, path, fh))

Fsync(path, fdatasync, fh) ==
    Apply([Req("fsync", path) EXCEPT !.mode = fdatasync, !.fh = fh], FlushStep(fs, fdtab, path, fh))

\* _full_path called on its own
Resolve(path) ==
    Serve(Req("_full_path", path), Ok(FullPath(path)), <<>>, fs, fdtab)

(***************************************************************************)
(* Inputs and specifications                                               *)
(***************************************************************************)
SubPath == <<SEP, "d">>

SubVirtualPath == SubPath \o VirtualPath

ExposedPaths == {<<SEP>>, VirtualPath, SubPath, SubVirtualPath}

\* paths at which the model holds an object, the targets of the mutating calls
CreatablePaths == {p \in ExposedPaths : Canon(FullPath(p)) \in NodeSet}

\* paths the descriptor-taking operations are called with
IoPaths == {VirtualPath, SubPath}

\* paths open is called with (the kernel opens directories through opendir)
OpenPaths == ExposedPaths \ {<<SEP>>}

\* the second path of symlink, rename and link
OtherPath == <<SEP, "d">>

AccessModes == {"F_OK", "R_OK"}

OpenFlags == {"O_RDONLY", "O_WRONLY"}

FhSet == FdSet \cup {SENTINEL_FD}

Next ==
    \/ \E p \in ExposedPaths, m \in AccessModes : Access(p, m)
    \/ \E p \in CreatablePaths, m \in ModeSet : Chmod(p, m)
    \/ \E p \in ExposedPaths : Getattr(p)
    \/ \E p \in ExposedPaths : Readdir(p, 0)
    \/ \E p \in CreatablePaths : Rmdir(p)
    \/ \E p \in CreatablePaths, m \in ModeSet : Mkdir(p, m)
    \/ \E p \in CreatablePaths : Unlink(p)
    \/ \E p \in IoPaths : Symlink(p, OtherPath)
    \/ \E p \in IoPaths : Rename(p, OtherPath)
    \/ \E p \in IoPaths : Link(p, OtherPath)
    \/ \E p \in OpenPaths, fl \in OpenFlags : Open(p, fl)
    \/ \E p \in CreatablePaths, m \in ModeSet : Create(p, m)
    \/ \E p \in IoPaths, offset \in {0, 1}, fh \in FhSet : Read(p, 1, offset, fh)
    \/ \E p \in IoPaths, offset \in 0..MaxFileLen, fh \in FhSet : Write(p, 1, offset, fh)
    \/ \E p \in CreatablePaths, length \in {0, MaxFileLen, MaxFileLen + 1} : Truncate(p, length)
    \/ \E p \in IoPaths, fh \in FhSet : Flush(p, fh)
    \/ \E p \in IoPaths, fh \in FhSet : Release(p, fh)
    \/ \E p \in IoPaths, fh \in FhSet : Fsync(p, 0, fh)
    \/ Reply

Spec == Init /\ [][Next]_vars

\* reads of the virtual file over every offset and length around its end
ReadRange == 0..(Len(VIRTUAL_FILE_VALUE) + 1)

ReadNext ==
    \/ \E fl \in OpenFlags : Open(VirtualPath, fl)
    \/ \E m \in ModeSet : Create(VirtualPath, m)
    \/ \E size \in ReadRange, offset \in ReadRange, fh \in FhSet : Read(VirtualPath, size, offset, fh)
    \/ \E fh \in FhSet : Release(VirtualPath, fh)
    \/ Reply

ReadSpec == Init /\ [][ReadNext]_vars

PathTokens == {SEP, "x", "nothing.txt"}

\* exposed paths: rooted at the separator, at most MaxPathLen tokens
RootedPaths == UNION {{<<SEP>> \o s : s \in [1..k -> PathTokens]} : k \in 0..(MaxPathLen - 1)}

PathNext ==
    \/ \E p \in RootedPaths : Resolve(p)
    \/ Reply

PathSpec == Init /\ [][PathNext]_vars

(***************************************************************************)
(* Properties                                                              *)
(***************************************************************************)
\* content[o : o+l] clamped to the content: its bytes o+1 .. min(o+l, length)
ClampedSlice(content, l, o) ==
    [i \in 1..Max(0, Min(l, Len(content) - o)) |-> content[o + i]]

VirtualReadServed == call.op = "read" /\ call.path = VirtualPath

\* C1: a read of "/nothing.txt" with offset o >= 0 and length l >= 0 returns
\* content[o : o+l] clamped to the content length, whatever fh is and whether
\* or not the path was opened: empty when o >= length(content), never an error.
C1_VirtualReadClamped ==
    VirtualReadServed =>
        /\ result.err = "OK"
        /\ result.val = ClampedSlice(VIRTUAL_FILE_VALUE, call.size, call.offset)
        /\ (call.offset >= Len(VIRTUAL_FILE_VALUE) => result.val = <<>>)

\* a read past the end, on a descriptor that was never opened, returned nothing
C1_ReadPastEndUnopened ==
    /\ VirtualReadServed
    /\ call.offset >= Len(VIRTUAL_FILE_VALUE)
    /\ call.size > 0
    /\ call.fh # SENTINEL_FD
    /\ ~IsOpenFd(fdtab, call.fh)
    /\ result = Ok(<<>>)

\* the backing object named like the virtual file
RealTwin == <<"r", "nothing.txt">>

\* C2: after any sequence of operations, also with a real file nothing.txt in
\* the backing root, getattr("/nothing.txt") succeeds with the fixed synthetic
\* record: size = length(content), link count 1, timestamps 0; and the content
\* a read returns is unchanged.
C2_VirtualAttrFixed ==
    /\ (call.op = "getattr" /\ call.path = VirtualPath) =>
          /\ result.err = "OK"
          /\ result.val = [st_atime |-> 0, st_ctime |-> 0, st_mtime |-> 0, st_nlink |-> 1,
                           st_mode |-> 33060, st_gid |-> 1004, st_uid |-> 1000,
                           st_size |-> 6 * Copies + 4]
          /\ result.val.st_size = Len(VIRTUAL_FILE_VALUE)
    /\ (call.op = "read" /\ call.path = VirtualPath) =>
          result = Ok(ClampedSlice(VIRTUAL_FILE_VALUE, call.size, call.offset))

\* getattr of the virtual path was served while a real file of another size
\* and mode has the same name
C2_GetattrBesideRealTwin ==
    /\ call.op = "getattr"
    /\ call.path = VirtualPath
    /\ fs[RealTwin].kind = "file"
    /\ fs[RealTwin].size = MaxFileLen
    /\ fs[RealTwin].mode = 192
    /\ result.err = "OK"

VirtualNoopOps == {"open", "flush", "fsync", "release"}

\* C3: open("/nothing.txt", flags) returns 55110 for every flags and leaves
\* files, contents and the open real descriptors unchanged; flush, fsync and
\* release on "/nothing.txt" return success without any real call.
C3_VirtualOpsTouchNothing ==
    [][(call'.op \in VirtualNoopOps /\ call'.path = VirtualPath) =>
          /\ fs' = fs
          /\ fdtab' = fdtab
          /\ oscalls' = <<>>
          /\ result'.err = "OK"
          /\ result'.val = (IF call'.op = "open" THEN 55110 ELSE None)]_vars

\* release of the virtual path was served with a real descriptor that is open
C3_ReleaseVirtualWithRealFd ==
    /\ call.op = "release"
    /\ call.path = VirtualPath
    /\ IsOpenFd(fdtab, call.fh)
    /\ result = Ok(None)

\* errno of the real rename(old, new) on nodes of the backing tree
RealRenameErr(f, old, new) ==
    IF LookupErr(f, old) # "OK" THEN LookupErr(f, old)
    ELSE IF ParentErr(f, new) # "OK" THEN ParentErr(f, new)
    ELSE IF old = new THEN "OK"
    ELSE IF Obj(f, new).kind = "dir" /\ Obj(f, old).kind # "dir" THEN "EISDIR"
    ELSE IF Obj(f, new).kind = "file" /\ Obj(f, old).kind = "dir" THEN "ENOTDIR"
    ELSE "OK"

\* errno of the real symlink(src, at): a link named `at`
RealSymlinkErr(f, at) ==
    IF ParentErr(f, at) # "OK" THEN ParentErr(f, at)
    ELSE IF Obj(f, at).kind # "none" THEN "EEXIST" ELSE "OK"

\* errno of the real link(target, name)
RealLinkErr(f, target, name) ==
    IF LookupErr(f, target) # "OK" THEN LookupErr(f, target)
    ELSE IF Obj(f, target).kind = "dir" THEN "EPERM"
    ELSE RealSymlinkErr(f, name)

\* C4: symlink, rename and link resolve their paths and delegate to the real
\* operation: the call succeeds, and changes the backing tree, when the real
\* operation would; otherwise it fails with the real operation's error.
C4_LinkOpsDelegate ==
    [][/\ call'.op = "rename" =>
            LET old == Canon(FullPath(call'.path))
                new == Canon(FullPath(call'.other))
                e == RealRenameErr(fs, old, new)
            IN  /\ result'.err = e
                /\ (e = "OK" /\ old # new) => (fs'[new] = fs[old] /\ fs'[old] = NoObj)
       /\ call'.op = "symlink" =>
            result'.err = RealSymlinkErr(fs, Canon(FullPath(call'.other)))
       /\ call'.op = "link" =>
            result'.err = RealLinkErr(fs, Canon(FullPath(call'.path)), Canon(FullPath(call'.other)))]_vars

\* the error a raw access(2) on the resolved path gives
RawAccessErr(f, n, mode) ==
    IF LookupErr(f, n) # "OK" THEN LookupErr(f, n)
    ELSE IF mode = "R_OK" /\ ~Readable(Obj(f, n)) THEN "EACCES" ELSE "OK"

\* C5: a passthrough call gives the error kind the raw file system gives:
\* access on a path whose resolved real path does not exist fails with
\* NotFound, and with PermissionDenied only when the object exists and the
\* check is refused.
C5_AccessRawError ==
    call.op = "access" => result.err = RawAccessErr(fs, Canon(FullPath(call.path)), call.flags)

\* the names of the real children of node n
RealNames(n) == {x \in {"nothing.txt", "d"} : n \o <<x>> \in NodeSet /\ fs[n \o <<x>>].kind # "none"}

ResolvesToDir(path) == LookupErr(fs, Canon(FullPath(path))) = "OK" /\ fs[Canon(FullPath(path))].kind = "dir"

\* '.', '..', the virtual filename, then the real listing without deduplication
ListingAsSpecified(path, names) ==
    /\ Len(names) >= 3
    /\ SubSeq(names, 1, 3) = <<".", "..", "nothing.txt">>
    /\ IF ResolvesToDir(path)
       THEN /\ Len(names) = 3 + Cardinality(RealNames(Canon(FullPath(path))))
            /\ {names[i] : i \in 4..Len(names)} = RealNames(Canon(FullPath(path)))
       ELSE Len(names) = 3

\* C6 as claimed: readdir(p) yields '.', '..', the virtual filename and then,
\* only if p resolves to an existing real directory, the real listing without
\* deduplication; and readdir never fails.
C6_ReaddirNeverFails ==
    call.op = "readdir" => (result.err = "OK" /\ ListingAsSpecified(call.path, result.val))

\* C6 as amended: readdir(p) yields '.', '..', the virtual filename and then,
\* only if p resolves to an existing real directory, the real listing without
\* deduplication; it fails only when p resolves to an existing directory whose
\* real listing is refused (an unreadable directory), with that error.
C6_ReaddirListing ==
    call.op = "readdir" =>
        IF ResolvesToDir(call.path) /\ ~Readable(fs[Canon(FullPath(call.path))])
        THEN result = Fail("EACCES")
        ELSE result.err = "OK" /\ ListingAsSpecified(call.path, result.val)

\* the root was listed while it holds a real child named like the virtual
\* file: the name appears twice
C6_NameListedTwice ==
    /\ call.op = "readdir"
    /\ call.path = <<SEP>>
    /\ result.err = "OK"
    /\ Len(result.val) = 5
    /\ \E i \in 4..5 : result.val[i] = "nothing.txt"

\* the exposed path of entry `name` of directory d
ChildPath(d, name) == IF d[Len(d)] = SEP THEN d \o name ELSE d \o <<SEP>> \o name

\* C7: for every directory d, the synthetic entry appears in readdir(d) if and
\* only if d joined with the virtual filename is the path getattr/open/read
\* treat as the virtual file (d = "/"), so every synthetic name listed can be
\* getattr'd and opened as the virtual file.
C7_ListedIffVirtual ==
    (call.op = "readdir" /\ result.err = "OK" /\ ResolvesToDir(call.path)) =>
        /\ (result.val[3] = "nothing.txt") <=> (call.path = <<SEP>>)
        /\ (result.val[3] = "nothing.txt") =>
              /\ GetattrResult(fs, ChildPath(call.path, VIRTUAL_FILE)) = Ok(VirtualAttr)
              /\ OpenStep(fs, fdtab, ChildPath(call.path, VIRTUAL_FILE), "O_RDONLY").r = Ok(55110)

\* C8: unlink("/nothing.txt") acts only on backing_root/nothing.txt: NotFound
\* if that real path does not exist, the real file removed if it exists, and
\* in both cases the virtual entry remains: a listing of "/" has it as before
\* (the call changes neither whether "/" can be listed nor the entry), and
\* getattr, open and read of "/nothing.txt" still succeed, content unchanged.
C8_UnlinkVirtualPath ==
    [][(call'.op = "unlink" /\ call'.path = VirtualPath) =>
          /\ oscalls' = <<OsCall("os.unlink", <<"/", "r", "/", "nothing.txt">>, 0)>>
          /\ \A n \in NodeSet \ {RealTwin} : fs'[n] = fs[n]
          /\ fs[RealTwin].kind = "none" => (result'.err = "ENOENT" /\ fs' = fs)
          /\ fs[RealTwin].kind = "file" => (result' = Ok(None) /\ fs'[RealTwin].kind = "none")
          /\ \A r \in ReaddirResults(fs', <<SEP>>) : r.err = "OK" => r.val[3] = "nothing.txt"
          /\ {r.err : r \in ReaddirResults(fs', <<SEP>>)} = {r.err : r \in ReaddirResults(fs, <<SEP>>)}
          /\ GetattrResult(fs', VirtualPath) = Ok(VirtualAttr)
          /\ OpenStep(fs', fdtab', VirtualPath, "O_RDONLY").r = Ok(55110)
          /\ VirtualRead(Len(VIRTUAL_FILE_VALUE), 0) = VIRTUAL_FILE_VALUE]_vars

\* unlink of the virtual path removed the real file of that name
C8_RealTwinRemoved ==
    /\ call.op = "unlink"
    /\ call.path = VirtualPath
    /\ result = Ok(None)
    /\ fs[RealTwin].kind = "none"

IsPrefix(a, b) == Len(a) <= Len(b) /\ SubSeq(b, 1, Len(a)) = a

\* C9: for every exposed path, also one that begins with several separators,
\* the resolver returns BackingRoot joined with the path less one leading
\* separator, so the result has BackingRoot as a prefix and names nothing
\* outside the backing tree.
C9_ResolvedUnderRoot ==
    call.op = "_full_path" =>
        /\ result.val = <<"/", "r", "/">> \o Tail(call.path)
        /\ IsPrefix(<<"/", "r">>, result.val)

\* C10: a real descriptor that open(p) or create(p) returned is closed by the
\* release(p, fd) that follows, also for create("/nothing.txt"), so no real
\* descriptor stays open after sessions that each end with their release.
C10_ReleaseCloses ==
    [][(/\ call'.op = "release"
        /\ IsOpenFd(fdtab, call'.fh)
        /\ fdtab[call'.fh].st = "linked"
        /\ fdtab[call'.fh].node = Canon(FullPath(call'.path))) =>
          ~IsOpenFd(fdtab', call'.fh)]_vars

=============================================================================
